---- MODULE Spec2Model ----
(***************************************************************************)
(* Model of the ordered-key index structures (AVLTree, BinarySearchTree    *)
(* with the DSW transform) and of the adjacency-list Graph.                *)
(*                                                                         *)
(* A tree is either Nil (Python None) or a node record holding the fields  *)
(* of AVLNode / BSTNode.  The recursive helpers of the source are          *)
(* translated as recursive operators that return the subtree the Python    *)
(* closure returns.                                                        *)
(***************************************************************************)
EXTENDS Integers, Sequences, FiniteSets, TLC

VARIABLES kind,      \* class of the tree object: "AVL" (AVLTree) or "BST" (BinarySearchTree)
          root,      \* self.root
          live,      \* history: keys inserted and not removed since construction
          last,      \* history: the last call, [op, key, name, data]
          pre,       \* history: self.root when the last call started
          raised,    \* "none", or the error the last call ended with
          directed,  \* Graph.directed
          adj,       \* Graph.adj: vertex id -> sequence of <<neighbour, weight>>
          ret        \* what the last Graph.dijkstra call returned, or NoRet

vars == <<kind, root, live, last, pre, raised, directed, adj, ret>>
treeVars == <<kind, root, live, last, pre, raised>>
graphVars == <<directed, adj, ret>>

-----------------------------------------------------------------------------
(* Bounds of the model *)

MaxKey == 7          \* keys 1..MaxKey in the shape specifications
MaxKeyP == 3         \* keys 1..MaxKeyP in the AVL label/payload specification
MaxKeyB == 2         \* keys 1..MaxKeyB in the BST label/payload specification
MaxKeyD == 6         \* keys 1..MaxKeyD in the DSW specification
MaxKeyI == 7         \* keys 1..MaxKeyI in the insert-only AVL specification
MaxVertex == 3       \* vertex ids 1..MaxVertex
MaxEdges == 2         \* add_edge calls per graph

-----------------------------------------------------------------------------
(* Values *)

Nil == <<>>                          \* None as a subtree

\* Payloads: None, an empty (falsy) container, the default
\* {'graph': Graph()} that AVLTree.insert creates, and the non-empty
\* payloads "G1" and "G2" a caller supplies.
None == "None"
Empty == "Empty"
Fresh == "Fresh"

Truthy(data) == data \notin {None, Empty}

Max(a, b) == IF a > b THEN a ELSE b

NoCall == [op |-> "init", key |-> 0, name |-> "", data |-> None]
NoRet == [called |-> FALSE]

-----------------------------------------------------------------------------
(* Nodes *)

AVLNode(key, name, data) ==
    [key |-> key, name |-> name, data |-> data,
     left |-> Nil, right |-> Nil, height |-> 1]

BSTNode(key, name, data) ==
    [key |-> key, name |-> name, data |-> data, left |-> Nil, right |-> Nil]

-----------------------------------------------------------------------------
(* AVLTree *)

Height(node) == IF node = Nil THEN 0 ELSE node.height

UpdateHeight(node) ==
    [node EXCEPT !.height = 1 + Max(Height(node.left), Height(node.right))]

BalanceFactor(node) == Height(node.left) - Height(node.right)

RotateRight(y) ==
    LET x == y.left
        T2 == x.right
        y2 == UpdateHeight([y EXCEPT !.left = T2])
    IN UpdateHeight([x EXCEPT !.right = y2])

RotateLeft(x) ==
    LET y == x.right
        T2 == y.left
        x2 == UpdateHeight([x EXCEPT !.right = T2])
    IN UpdateHeight([y EXCEPT !.left = x2])

\* Rebalance without the double-rotation cases
RebalanceNoDouble(node0) ==
    LET node == UpdateHeight(node0)
        bf == BalanceFactor(node)
    IN IF bf > 1 THEN RotateRight(node)
       ELSE IF bf < -1 THEN RotateLeft(node)
       ELSE node

\* Rebalance that tolerates a balance factor of +-2
RebalanceLoose(node0) ==
    LET node == UpdateHeight(node0)
        bf == BalanceFactor(node)
    IN IF bf > 2 THEN RotateRight(node)
       ELSE IF bf < -2 THEN RotateLeft(node)
       ELSE node

\* Rebalance that rotates as soon as a node leans
RebalanceEager(node0) ==
    LET node == UpdateHeight(node0)
        bf == BalanceFactor(node)
    IN IF bf > 0 THEN RotateRight(node)
       ELSE IF bf < 0 THEN RotateLeft(node)
       ELSE node

Rebalance(node0) ==
    LET node == UpdateHeight(node0)
        bf == BalanceFactor(node)
    IN IF bf > 1
       THEN IF BalanceFactor(node.left) < 0
            THEN RotateRight([node EXCEPT !.left = RotateLeft(node.left)])
            ELSE RotateRight(node)
       ELSE IF bf < -1
       THEN IF BalanceFactor(node.right) > 0
            THEN RotateLeft([node EXCEPT !.right = RotateRight(node.right)])
            ELSE RotateLeft(node)
       ELSE node

\* _insert that overwrites the payload of an existing key unconditionally
RECURSIVE AVLInsertRecOverwrite(_, _, _, _)
AVLInsertRecOverwrite(node, key, name, data) ==
    IF node = Nil
    THEN AVLNode(key, name, IF data = None THEN Fresh ELSE data)
    ELSE IF key < node.key
    THEN Rebalance([node EXCEPT
                      !.left = AVLInsertRecOverwrite(node.left, key, name, data)])
    ELSE IF key > node.key
    THEN Rebalance([node EXCEPT
                      !.right = AVLInsertRecOverwrite(node.right, key, name, data)])
    ELSE [node EXCEPT !.name = name, !.data = data]

RECURSIVE AVLInsertRec(_, _, _, _)
AVLInsertRec(node, key, name, data) ==
    IF node = Nil
    THEN AVLNode(key, name, IF data = None THEN Fresh ELSE data)
    ELSE IF key < node.key
    THEN Rebalance([node EXCEPT !.left = AVLInsertRec(node.left, key, name, data)])
    ELSE IF key > node.key
    THEN Rebalance([node EXCEPT !.right = AVLInsertRec(node.right, key, name, data)])
    ELSE [node EXCEPT !.name = name,
                      !.data = IF Truthy(data) THEN data ELSE node.data]

RECURSIVE Search(_, _)
Search(node, key) ==
    IF node = Nil THEN Nil
    ELSE IF key = node.key THEN node
    ELSE IF key < node.key THEN Search(node.left, key)
    ELSE Search(node.right, key)

\* _min_node that forgets to descend
MinNodeNoDescent(node) == node

RECURSIVE MinNode(_)
MinNode(node) == IF node.left = Nil THEN node ELSE MinNode(node.left)

RECURSIVE AVLRemoveRec(_, _)
AVLRemoveRec(node, key) ==
    IF node = Nil THEN Nil
    ELSE IF key < node.key
    THEN Rebalance([node EXCEPT !.left = AVLRemoveRec(node.left, key)])
    ELSE IF key > node.key
    THEN Rebalance([node EXCEPT !.right = AVLRemoveRec(node.right, key)])
    ELSE IF node.left = Nil THEN node.right
    ELSE IF node.right = Nil THEN node.left
    ELSE LET successor == MinNode(node.right)
         IN Rebalance([node EXCEPT !.key = successor.key,
                                   !.name = successor.name,
                                   !.data = successor.data,
                                   !.right = AVLRemoveRec(node.right, successor.key)])

-----------------------------------------------------------------------------
(* BinarySearchTree *)

\* _insert with the payload rule of AVLTree.insert
RECURSIVE BSTInsertRecKeep(_, _, _, _)
BSTInsertRecKeep(node, key, name, data) ==
    IF node = Nil THEN BSTNode(key, name, data)
    ELSE IF key < node.key
    THEN [node EXCEPT !.left = BSTInsertRecKeep(node.left, key, name, data)]
    ELSE IF key > node.key
    THEN [node EXCEPT !.right = BSTInsertRecKeep(node.right, key, name, data)]
    ELSE [node EXCEPT !.name = name,
                      !.data = IF Truthy(data) THEN data ELSE node.data]

RECURSIVE BSTInsertRec(_, _, _, _)
BSTInsertRec(node, key, name, data) ==
    IF node = Nil THEN BSTNode(key, name, data)
    ELSE IF key < node.key
    THEN [node EXCEPT !.left = BSTInsertRec(node.left, key, name, data)]
    ELSE IF key > node.key
    THEN [node EXCEPT !.right = BSTInsertRec(node.right, key, name, data)]
    ELSE [node EXCEPT !.name = name, !.data = data]

RECURSIVE BSTRemoveRec(_, _)
BSTRemoveRec(node, key) ==
    IF node = Nil THEN Nil
    ELSE IF key < node.key
    THEN [node EXCEPT !.left = BSTRemoveRec(node.left, key)]
    ELSE IF key > node.key
    THEN [node EXCEPT !.right = BSTRemoveRec(node.right, key)]
    ELSE IF node.left = Nil THEN node.right
    ELSE IF node.right = Nil THEN node.left
    ELSE LET successor == MinNode(node.right)
         IN [node EXCEPT !.key = successor.key,
                         !.name = successor.name,
                         !.data = successor.data,
                         !.right = BSTRemoveRec(node.right, successor.key)]

-----------------------------------------------------------------------------
(* DSW transform of BinarySearchTree *)

\* _tree_to_vine: the subtree that ends up below tail.right once the loop
\* has consumed `rest`
RECURSIVE TreeToVine(_)
TreeToVine(rest) ==
    IF rest = Nil THEN Nil
    ELSE IF rest.left = Nil
    THEN [rest EXCEPT !.right = TreeToVine(rest.right)]
    ELSE LET left == rest.left
         IN TreeToVine([left EXCEPT !.right = [rest EXCEPT !.left = left.right]])

\* the rotations of _compress from scanner.right = child onwards: ok is
\* FALSE when next_child is None and `next_child.left` raises
RECURSIVE CompressFrom(_, _)
CompressFrom(child, count) ==
    IF count <= 0 \/ child = Nil THEN [ok |-> TRUE, tree |-> child]
    ELSE IF child.right = Nil THEN [ok |-> FALSE, tree |-> Nil]
    ELSE LET next_child == child.right
             rest == CompressFrom(next_child.right, count - 1)
         IN [ok |-> rest.ok,
             tree |-> [next_child EXCEPT
                          !.left = [child EXCEPT !.right = next_child.left],
                          !.right = rest.tree]]

\* _compress: on success self.root = pseudo_root.right; when a rotation
\* raises, self.root still refers to the node that was the root on entry,
\* whose right link the first rotation has already rewritten
Compress(tree, count) ==
    LET r == CompressFrom(tree, count)
    IN IF r.ok THEN r
       ELSE [ok |-> FALSE,
             tree |-> IF tree.right = Nil THEN tree
                      ELSE [tree EXCEPT !.right = tree.right.left]]

RECURSIVE Count(_)
Count(nod) == IF nod = Nil THEN 0 ELSE Count(nod.left) + 1 + Count(nod.right)

RECURSIVE DoubleUntil(_, _)
DoubleUntil(m, n) == IF m <= n THEN DoubleUntil(2 * m, n) ELSE m

ComputeM(n) == (DoubleUntil(1, n) \div 2) - 1

RECURSIVE CompressLoop(_, _)
CompressLoop(tree, m) ==
    IF m > 1
    THEN LET m2 == m \div 2
             r == Compress(tree, m2)
         IN IF r.ok THEN CompressLoop(r.tree, m2) ELSE r
    ELSE [ok |-> TRUE, tree |-> tree]

DswBalance(tree) ==
    LET n == Count(tree)
    IN IF n <= 1 THEN [ok |-> TRUE, tree |-> tree]
       ELSE LET m == ComputeM(n)
                first == Compress(TreeToVine(tree), n - m)
            IN IF first.ok THEN CompressLoop(first.tree, m) ELSE first

-----------------------------------------------------------------------------
(* Traversal and measures (inorder with a key-collecting visitor) *)

RECURSIVE Inorder(_)
Inorder(node) ==
    IF node = Nil THEN <<>>
    ELSE Inorder(node.left) \o <<node.key>> \o Inorder(node.right)

RECURSIVE TrueHeight(_)
TrueHeight(node) ==
    IF node = Nil THEN 0
    ELSE 1 + Max(TrueHeight(node.left), TrueHeight(node.right))

RECURSIVE Nodes(_)
Nodes(node) ==
    IF node = Nil THEN {}
    ELSE {node} \cup Nodes(node.left) \cup Nodes(node.right)

KeysOf(node) == {n.key : n \in Nodes(node)}

SeqToSet(s) == {s[i] : i \in 1..Len(s)}

StrictlyIncreasing(s) == \A i \in 1..(Len(s) - 1) : s[i] < s[i + 1]

\* the BST order invariant, node by node
Ordered(node) ==
    \A n \in Nodes(node) :
        /\ \A k \in KeysOf(n.left) : k < n.key
        /\ \A k \in KeysOf(n.right) : k > n.key

-----------------------------------------------------------------------------
(* Tree operations as actions *)

AVLInsert(key, name, data) ==
    /\ kind = "AVL"
    /\ root' = AVLInsertRec(root, key, name, data)
    /\ live' = live \cup {key}
    /\ last' = [op |-> "insert", key |-> key, name |-> name, data |-> data]
    /\ pre' = root
    /\ raised' = "none"
    /\ UNCHANGED <<kind, graphVars>>

AVLRemove(key) ==
    /\ kind = "AVL"
    /\ root' = AVLRemoveRec(root, key)
    /\ live' = live \ {key}
    /\ last' = [op |-> "remove", key |-> key, name |-> "", data |-> None]
    /\ pre' = root
    /\ raised' = "none"
    /\ UNCHANGED <<kind, graphVars>>

BSTInsert(key, name, data) ==
    /\ kind = "BST"
    /\ root' = BSTInsertRec(root, key, name, data)
    /\ live' = live \cup {key}
    /\ last' = [op |-> "insert", key |-> key, name |-> name, data |-> data]
    /\ pre' = root
    /\ raised' = "none"
    /\ UNCHANGED <<kind, graphVars>>

BSTRemove(key) ==
    /\ kind = "BST"
    /\ root' = BSTRemoveRec(root, key)
    /\ live' = live \ {key}
    /\ last' = [op |-> "remove", key |-> key, name |-> "", data |-> None]
    /\ pre' = root
    /\ raised' = "none"
    /\ UNCHANGED <<kind, graphVars>>

DSWBalance ==
    /\ kind = "BST"
    /\ LET r == DswBalance(root)
       IN /\ root' = r.tree
          /\ raised' = IF r.ok THEN "none" ELSE "AttributeError"
    /\ last' = [op |-> "dsw_balance", key |-> 0, name |-> "", data |-> None]
    /\ pre' = root
    /\ UNCHANGED <<kind, live, graphVars>>

-----------------------------------------------------------------------------
(* Graph *)

Inf == 1000000                       \* float('inf')
NoVertex == 0                        \* None as a predecessor

Vertices == 1..MaxVertex
Weights == {0, 1}

\* self.adj[u] of the defaultdict(list): the list of u, [] when u is no key
AdjList(a, u) == IF u \in DOMAIN a THEN a[u] ELSE <<>>

\* self.adj[u] = list, creating the key u when it is missing
AdjPut(a, u, list) == [x \in DOMAIN a \cup {u} |-> IF x = u THEN list ELSE a[x]]

\* self.adj[u].append((v, weight))
AdjAppend(a, u, v, weight) == AdjPut(a, u, Append(AdjList(a, u), <<v, weight>>))

\* number of (v, weight) entries stored
RECURSIVE Entries(_, _)
Entries(a, us) ==
    IF us = {} THEN 0
    ELSE LET u == CHOOSE x \in us : TRUE
         IN Len(a[u]) + Entries(a, us \ {u})

\* dist.get(v, float('inf'))
DistGet(dist, v) == IF v \in DOMAIN dist THEN dist[v] ELSE Inf

\* order of the (d, u) tuples on the heap
TupleLess(a, b) == a[1] < b[1] \/ (a[1] = b[1] /\ a[2] < b[2])

\* index of the tuple heapq.heappop returns
MinIndex(heap) ==
    CHOOSE i \in 1..Len(heap) :
        \A j \in 1..Len(heap) :
            j # i => (TupleLess(heap[i], heap[j]) \/ (heap[i] = heap[j] /\ i < j))

RemoveAt(s, i) == SubSeq(s, 1, i - 1) \o SubSeq(s, i + 1, Len(s))

\* one iteration of the for loop that forgets to push the improved vertex
RelaxNoPush(st, u, v, w) ==
    LET alt == st.dist[u] + w
    IN IF alt < DistGet(st.dist, v)
       THEN [st EXCEPT !.dist = [x \in DOMAIN st.dist \cup {v} |->
                                    IF x = v THEN alt ELSE st.dist[x]],
                       !.prev = [x \in DOMAIN st.prev \cup {v} |->
                                    IF x = v THEN u ELSE st.prev[x]]]
       ELSE st

\* one iteration of `for v, w in self.adj[u]`
Relax(st, u, v, w) ==
    LET alt == st.dist[u] + w
    IN IF alt < DistGet(st.dist, v)
       THEN [st EXCEPT !.dist = [x \in DOMAIN st.dist \cup {v} |->
                                    IF x = v THEN alt ELSE st.dist[x]],
                       !.prev = [x \in DOMAIN st.prev \cup {v} |->
                                    IF x = v THEN u ELSE st.prev[x]],
                       !.heap = Append(st.heap, <<alt, v>>)]
       ELSE st

RECURSIVE RelaxAll(_, _, _, _)
RelaxAll(st, u, list, i) ==
    IF i > Len(list) THEN st
    ELSE RelaxAll(Relax(st, u, list[i][1], list[i][2]), u, list, i + 1)

\* the while loop of dijkstra; reading self.adj[u] creates the key u
RECURSIVE DijkstraLoop(_)
DijkstraLoop(st) ==
    IF st.heap = <<>> THEN st
    ELSE LET i == MinIndex(st.heap)
             d == st.heap[i][1]
             u == st.heap[i][2]
             popped == [st EXCEPT !.heap = RemoveAt(st.heap, i)]
         IN IF d > st.dist[u] THEN DijkstraLoop(popped)
            ELSE LET list == AdjList(st.adj, u)
                     read == [popped EXCEPT !.adj = AdjPut(st.adj, u, list)]
                 IN DijkstraLoop(RelaxAll(read, u, list, 1))

DijkstraRun(a, source) ==
    LET dist == [v \in DOMAIN a |-> Inf]
        prev == [v \in DOMAIN a |-> NoVertex]
    IN IF source \notin DOMAIN a
       THEN [dist |-> dist, prev |-> prev, heap |-> <<>>, adj |-> a]
       ELSE DijkstraLoop([dist |-> [dist EXCEPT ![source] = 0], prev |-> prev,
                          heap |-> <<<<0, source>>>>, adj |-> a])

EdgeCalls == Entries(adj, DOMAIN adj) \div (IF directed THEN 1 ELSE 2)

AddVertex(v) ==
    /\ v \notin DOMAIN adj
    /\ adj' = AdjPut(adj, v, <<>>)
    /\ ret' = NoRet
    /\ UNCHANGED <<directed, treeVars>>

AddVertexAgain(v) ==
    /\ v \in DOMAIN adj
    /\ ret' = NoRet
    /\ UNCHANGED <<adj, directed, treeVars>>

AddEdge(u, v, weight) ==
    /\ EdgeCalls < MaxEdges
    /\ adj' = IF directed THEN AdjAppend(adj, u, v, weight)
              ELSE AdjAppend(AdjAppend(adj, u, v, weight), v, u, weight)
    /\ ret' = NoRet
    /\ UNCHANGED <<directed, treeVars>>

Dijkstra(source) ==
    /\ LET r == DijkstraRun(adj, source)
       IN /\ ret' = [called |-> TRUE, source |-> source,
                     known |-> source \in DOMAIN adj,
                     dist |-> r.dist, prev |-> r.prev]
          /\ adj' = r.adj
    /\ UNCHANGED <<directed, treeVars>>

\* the while loop of bfs: q is the deque, neighbours are read with
\* self.adj.get(u, []), which creates no key
RECURSIVE BfsVisit(_, _, _, _)
BfsVisit(list, i, visited, q) ==
    IF i > Len(list) THEN [visited |-> visited, q |-> q]
    ELSE LET v == list[i][1]
         IN IF v \notin visited
            THEN BfsVisit(list, i + 1, visited \cup {v}, Append(q, v))
            ELSE BfsVisit(list, i + 1, visited, q)

RECURSIVE BfsLoop(_, _, _, _)
BfsLoop(a, q, visited, order) ==
    IF q = <<>> THEN order
    ELSE LET u == Head(q)
             r == BfsVisit(AdjList(a, u), 1, visited, Tail(q))
         IN BfsLoop(a, r.q, r.visited, Append(order, u))

BfsRun(a, start) == BfsLoop(a, <<start>>, {start}, <<>>)

\* the while loop of dfs: the unvisited neighbours are pushed in reverse
RECURSIVE DfsPush(_, _, _, _)
DfsPush(list, i, visited, stack) ==
    IF i < 1 THEN stack
    ELSE IF list[i][1] \notin visited
    THEN DfsPush(list, i - 1, visited, Append(stack, list[i][1]))
    ELSE DfsPush(list, i - 1, visited, stack)

RECURSIVE DfsLoop(_, _, _, _)
DfsLoop(a, stack, visited, order) ==
    IF stack = <<>> THEN order
    ELSE LET u == stack[Len(stack)]
             rest == SubSeq(stack, 1, Len(stack) - 1)
         IN IF u \in visited THEN DfsLoop(a, rest, visited, order)
            ELSE LET list == AdjList(a, u)
                     seen == visited \cup {u}
                 IN DfsLoop(a, DfsPush(list, Len(list), seen, rest),
                            seen, Append(order, u))

DfsRun(a, start) == DfsLoop(a, <<start>>, {}, <<>>)

\* prev.get(cur)
PrevGet(prev, cur) == IF cur \in DOMAIN prev THEN prev[cur] ELSE NoVertex

\* the path of shortest_path before path.reverse()
RECURSIVE PathBack(_, _)
PathBack(prev, cur) ==
    IF cur = NoVertex THEN <<>>
    ELSE <<cur>> \o PathBack(prev, PrevGet(prev, cur))

Reverse(s) == [i \in 1..Len(s) |-> s[Len(s) + 1 - i]]

\* shortest_path: what it returns, and self.adj as dijkstra leaves it
ShortestPathRun(a, source, target) ==
    LET r == DijkstraRun(a, source)
    IN IF DistGet(r.dist, target) = Inf
       THEN [dist |-> Inf, path |-> <<>>, adj |-> r.adj]
       ELSE [dist |-> r.dist[target],
             path |-> Reverse(PathBack(r.prev, target)), adj |-> r.adj]

Bfs(start) ==
    /\ ret' = [called |-> TRUE, op |-> "bfs", order |-> BfsRun(adj, start)]
    /\ UNCHANGED <<adj, directed, treeVars>>

Dfs(start) ==
    /\ ret' = [called |-> TRUE, op |-> "dfs", order |-> DfsRun(adj, start)]
    /\ UNCHANGED <<adj, directed, treeVars>>

ShortestPath(source, target) ==
    /\ LET r == ShortestPathRun(adj, source, target)
       IN /\ ret' = [called |-> TRUE, op |-> "shortest_path",
                     dist |-> r.dist, path |-> r.path]
          /\ adj' = r.adj
    /\ UNCHANGED <<directed, treeVars>>

-----------------------------------------------------------------------------
(* Specifications *)

InitTree(kinds) ==
    /\ kind \in kinds
    /\ root = Nil
    /\ live = {}
    /\ last = NoCall
    /\ pre = Nil
    /\ raised = "none"
    /\ directed = FALSE
    /\ adj = <<>>
    /\ ret = NoRet

\* The cities the driver registers: each id has its own name, and a
\* payload that is absent, "G1" or "G2".
CityName(key) == ToString(key)
CityData(key) == IF key % 3 = 0 THEN None ELSE IF key % 3 = 1 THEN "G1" ELSE "G2"

\* Spec: either tree class under insert(key, name, data) of the cities
\* 1..MaxKey and remove(key).
Init == InitTree({"AVL", "BST"})

Next ==
    \E key \in 1..MaxKey :
        \/ AVLInsert(key, CityName(key), CityData(key))
        \/ AVLRemove(key)
        \/ BSTInsert(key, CityName(key), CityData(key))
        \/ BSTRemove(key)

Spec == Init /\ [][Next]_vars

\* SpecDSW: a BinarySearchTree under insert(key), remove(key) and
\* dsw_balance(); a caller that catches the error of a failed call goes on
\* using the tree.
InitDSW == InitTree({"BST"})

NextDSW ==
    \/ \E key \in 1..MaxKeyD : BSTInsert(key, "", None)
    \/ \E key \in 1..MaxKeyD : BSTRemove(key)
    \/ DSWBalance

SpecDSW == InitDSW /\ [][NextDSW]_vars

\* SpecAVLInsert: an AVLTree under insert(key) alone.
InitAVLInsert == InitTree({"AVL"})

NextAVLInsert == \E key \in 1..MaxKeyI : AVLInsert(key, "", None)

SpecAVLInsert == InitAVLInsert /\ [][NextAVLInsert]_vars

\* SpecPayload: an AVLTree under insert with every combination of two
\* labels and an absent, empty or non-empty payload, and remove.
Names == {"a", "b"}
Datas == {None, Empty, "G1"}

InitPayload == InitTree({"AVL"})

NextPayload ==
    \/ \E key \in 1..MaxKeyP, name \in Names, data \in Datas :
           AVLInsert(key, name, data)
    \/ \E key \in 1..MaxKeyP : AVLRemove(key)

SpecPayload == InitPayload /\ [][NextPayload]_vars

\* SpecPayloadBST: a BinarySearchTree under the same inserts, and remove.
InitPayloadBST == InitTree({"BST"})

NextPayloadBST ==
    \/ \E key \in 1..MaxKeyB, name \in Names, data \in Datas :
           BSTInsert(key, name, data)
    \/ \E key \in 1..MaxKeyB : BSTRemove(key)

SpecPayloadBST == InitPayloadBST /\ [][NextPayloadBST]_vars

\* SpecGraph: a Graph, directed or not, under add_vertex, add_edge and
\* dijkstra.
InitGraph ==
    /\ kind = "AVL"
    /\ root = Nil
    /\ live = {}
    /\ last = NoCall
    /\ pre = Nil
    /\ raised = "none"
    /\ directed \in BOOLEAN
    /\ adj = <<>>
    /\ ret = NoRet

NextGraph ==
    \/ \E v \in Vertices : AddVertex(v)
    \/ \E v \in Vertices : AddVertexAgain(v)
    \/ \E u \in Vertices, v \in Vertices, weight \in Weights : AddEdge(u, v, weight)
    \/ \E source \in Vertices : Dijkstra(source)

SpecGraph == InitGraph /\ [][NextGraph]_vars

\* SpecQueries: a Graph, directed or not, under add_vertex, add_edge and the
\* four queries bfs, dfs, dijkstra and shortest_path.
InitQueries == InitGraph

NextQueries ==
    \/ \E v \in Vertices : AddVertex(v)
    \/ \E v \in Vertices : AddVertexAgain(v)
    \/ \E u \in Vertices, v \in Vertices, weight \in Weights : AddEdge(u, v, weight)
    \/ \E start \in Vertices : Bfs(start)
    \/ \E start \in Vertices : Dfs(start)
    \/ \E source \in Vertices : Dijkstra(source)
    \/ \E source \in Vertices, target \in Vertices : ShortestPath(source, target)

SpecQueries == InitQueries /\ [][NextQueries]_vars

-----------------------------------------------------------------------------
(* Claims *)

Abs(x) == IF x < 0 THEN -x ELSE x

\* C1: after every insert or remove call on an initially empty AVLTree or
\* BinarySearchTree, every node has only smaller keys in its left subtree
\* and only greater keys in its right subtree, the in-order traversal is
\* strictly increasing, and the keys of the tree are exactly the keys
\* inserted and not removed since.
C1_OrderAndKeys ==
    /\ Ordered(root)
    /\ StrictlyIncreasing(Inorder(root))
    /\ SeqToSet(Inorder(root)) = live
    /\ Len(Inorder(root)) = Cardinality(live)

\* a remove of a node with two children has acted on a tree of at least
\* four keys
C1_Witness ==
    /\ last.op = "remove"
    /\ Cardinality(KeysOf(pre)) >= 4
    /\ \E n \in Nodes(pre) :
           n.key = last.key /\ n.left # Nil /\ n.right # Nil /\ n.right.left # Nil

\* C2: after every insert or remove call on an AVLTree, at every node the
\* true heights of the two subtrees differ by at most one and the stored
\* height field equals the true recursive height.
C2_AVLBalanced ==
    kind = "AVL" =>
        \A n \in Nodes(root) :
            /\ Abs(TrueHeight(n.left) - TrueHeight(n.right)) <= 1
            /\ n.height = TrueHeight(n)

\* a remove has acted on an AVL tree and a rotation moved another key to
\* the root
C2_Witness ==
    /\ kind = "AVL"
    /\ last.op = "remove"
    /\ last.key \in KeysOf(pre)
    /\ pre.key # last.key
    /\ root.key # pre.key

RECURSIVE CeilLog2(_)
\* the least h with 2^h >= x, for x >= 1
CeilLog2(x) == IF x <= 1 THEN 0 ELSE 1 + CeilLog2((x + 1) \div 2)

\* C3: a dsw_balance call on any reachable BinarySearchTree completes and
\* the in-order key sequence after it is the one before it.
C3_DSWPreservesInorder ==
    last.op = "dsw_balance" =>
        /\ raised = "none"
        /\ Inorder(root) = Inorder(pre)

\* C4: after dsw_balance on a BinarySearchTree of n >= 1 nodes the height of
\* the tree is ceil(log2(n+1)).
C4_DSWHeight ==
    (last.op = "dsw_balance" /\ Count(pre) >= 1) =>
        TrueHeight(root) = CeilLog2(Count(pre) + 1)

\* C5: insert, remove and dsw_balance are all-or-nothing: no call fails
\* after it has modified the tree, and when a call ends every key that was
\* in the tree before it, other than a removal target, is still in the tree
\* and the BST order invariant holds.
C5_AllOrNothing ==
    /\ raised # "none" => root = pre
    /\ (KeysOf(pre) \ (IF last.op = "remove" THEN {last.key} ELSE {}))
          \subseteq KeysOf(root)
    /\ Ordered(root)

\* the least number of nodes of a tree of height h in which the heights of
\* the two subtrees of every node differ by at most one
RECURSIVE MinNodes(_)
MinNodes(h) == IF h <= 0 THEN 0 ELSE IF h = 1 THEN 1 ELSE 1 + MinNodes(h - 1) + MinNodes(h - 2)

\* the tree without its labels and payloads: keys, links and stored heights
RECURSIVE Shape(_)
Shape(node) ==
    IF node = Nil THEN Nil
    ELSE [key |-> node.key,
          height |-> IF "height" \in DOMAIN node THEN node.height ELSE 0,
          left |-> Shape(node.left), right |-> Shape(node.right)]

\* C6 as stated: once exactly the keys 1..2^k-1 have been inserted into an
\* empty AVLTree, in whatever order, the height of the tree is exactly k.
C6_HeightExactlyK ==
    \A k \in 1..MaxKeyI :
        live = 1..(2^k - 1) => TrueHeight(root) = k

\* C6 amended: once exactly the keys 1..2^k-1 have been inserted into an
\* empty AVLTree, in whatever order, the height h of the tree is at least k
\* and no more than the height-balance allows for 2^k-1 nodes
\* (MinNodes(h) <= 2^k-1); it is exactly k when k <= 2.
C6_HeightAtLeastK ==
    \A k \in 1..MaxKeyI :
        live = 1..(2^k - 1) =>
            /\ TrueHeight(root) >= k
            /\ MinNodes(TrueHeight(root)) <= 2^k - 1
            /\ k <= 2 => TrueHeight(root) = k

\* the keys 1..7 have been inserted and the tree has height 4, not 3
C6_Witness ==
    /\ last.op = "insert"
    /\ live = 1..7
    /\ TrueHeight(root) = 4

\* C7 as stated: BinarySearchTree.insert of an existing key overwrites the
\* label and overwrites the payload only when a non-empty payload is
\* supplied; insert of a new key with no payload stores a fresh default
\* payload.
C7_SameContractAsAVL ==
    (kind = "BST" /\ last.op = "insert") =>
        LET old == Search(pre, last.key)
            new == Search(root, last.key)
        IN /\ new # Nil
           /\ new.name = last.name
           /\ new.data = IF old # Nil
                         THEN (IF Truthy(last.data) THEN last.data ELSE old.data)
                         ELSE (IF last.data = None THEN Fresh ELSE last.data)

\* C7 amended: BinarySearchTree.insert of an existing key overwrites the
\* label and the payload unconditionally with the supplied values (a
\* re-insert with no payload or an empty one replaces the previous payload);
\* insert of a new key stores the supplied payload as it is, None when none
\* is supplied.
C7_OverwritesUnconditionally ==
    (kind = "BST" /\ last.op = "insert") =>
        LET new == Search(root, last.key)
        IN /\ new # Nil
           /\ new.name = last.name
           /\ new.data = last.data

\* a BinarySearchTree node holding a non-empty payload has been re-inserted
\* with no payload
C7_Witness ==
    /\ kind = "BST"
    /\ last.op = "insert"
    /\ last.data = None
    /\ Search(pre, last.key) # Nil
    /\ Truthy(Search(pre, last.key).data)

\* C8: AVLTree.insert of a key already in the tree leaves the number of
\* nodes, the shape and all stored heights unchanged, sets the node's label
\* to the supplied one, replaces its payload only when the supplied payload
\* is present and non-empty, and changes no other node's label or payload.
C8_AVLInsertExistingIsUpdate ==
    (kind = "AVL" /\ last.op = "insert" /\ last.key \in KeysOf(pre)) =>
        /\ raised = "none"
        /\ Shape(root) = Shape(pre)
        /\ Count(root) = Count(pre)
        /\ Search(root, last.key).name = last.name
        /\ Search(root, last.key).data =
              IF Truthy(last.data) THEN last.data ELSE Search(pre, last.key).data
        /\ \A k \in KeysOf(pre) \ {last.key} :
              /\ Search(root, k).name = Search(pre, k).name
              /\ Search(root, k).data = Search(pre, k).data

\* an AVLTree node below the root has been re-inserted with another label
\* and an empty payload
C8_Witness ==
    /\ kind = "AVL"
    /\ last.op = "insert"
    /\ last.key \in KeysOf(pre)
    /\ pre.key # last.key
    /\ last.data = Empty
    /\ Search(pre, last.key).name # last.name
    /\ Search(pre, last.key).data = "G1"

\* C9: remove of a key that is not in the tree raises nothing and leaves
\* the whole tree as it was: root, shape, keys, labels, payloads and, in an
\* AVLTree, stored heights.
C9_RemoveAbsentIsNoOp ==
    (last.op = "remove" /\ last.key \notin KeysOf(pre)) =>
        /\ raised = "none"
        /\ root = pre

\* remove of an absent key has acted on an AVLTree of height 3 whose root
\* leans towards the side searched
C9_Witness ==
    /\ kind = "AVL"
    /\ last.op = "remove"
    /\ last.key \notin KeysOf(pre)
    /\ TrueHeight(pre) = 3
    /\ last.key < pre.key
    /\ BalanceFactor(pre) = 1

\* a + w with float('inf') absorbing
PlusInf(a, w) == IF a = Inf THEN Inf ELSE a + w

\* C10: for a graph built with add_vertex/add_edge with non-negative
\* weights and a source that is a vertex of it, dijkstra returns distances
\* with dist[source] = 0, every distance non-negative, and
\* dist[v] <= dist[u] + w for every stored edge u->v of weight w, a vertex
\* without an entry counting as infinitely far (dist.get(v, inf)).
C10_DijkstraRelaxed ==
    (ret.called /\ ret.known) =>
        /\ ret.dist[ret.source] = 0
        /\ \A v \in DOMAIN ret.dist : ret.dist[v] >= 0
        /\ \A u \in DOMAIN adj :
              \A i \in 1..Len(adj[u]) :
                  DistGet(ret.dist, adj[u][i][1])
                      <= PlusInf(DistGet(ret.dist, u), adj[u][i][2])

\* dijkstra has returned a finite distance to a vertex that is reached
\* through an intermediate vertex
C10_Witness ==
    /\ ret.called
    /\ ret.known
    /\ \E v \in DOMAIN ret.dist :
          /\ ret.dist[v] < Inf
          /\ ret.prev[v] \notin {NoVertex, ret.source}
          /\ ret.dist[v] > 0

\* the largest number of the form 2^k - 1 that is <= n, for n >= 1
LargestFull(n) ==
    LET ks == {k \in 0..n : 2^k - 1 <= n}
        k == CHOOSE x \in ks : \A y \in ks : y <= x
    IN 2^k - 1

\* C11: in dsw_balance, for every node count n >= 2 the m computed by the
\* doubling loop is the largest number of the form 2^k - 1 that is <= n,
\* so that the first compression pass is asked for n - m <= floor(n/2)
\* rotations.
C11_MIsLargestFull ==
    (last.op = "dsw_balance" /\ Count(pre) >= 2) =>
        LET n == Count(pre)
            m == ComputeM(n)
        IN /\ m = LargestFull(n)
           /\ n - m <= n \div 2

\* C12: bfs, dfs, dijkstra and shortest_path are read-only: a call to any
\* of them leaves the adjacency structure as it was, so vertices() returns
\* the same vertex ids after the call as before it.
C12_QueriesReadOnly ==
    [][ret'.called => (adj' = adj /\ DOMAIN adj' = DOMAIN adj)]_vars

====
